---------------------------- MODULE Spec2Model ----------------------------
(***************************************************************************)
(* A model of the poll / dedup / classify / persist / notify pipeline of   *)
(* aiweb3news: Service.Run and Service.pollOnce, rss.Fetcher.Fetch, the     *)
(* news_analysis ledger of storage.Store and the response normalisation of  *)
(* analysis.Client.Evaluate.                                                *)
(*                                                                         *)
(* Strings the code searches or cuts (identifiers, links, model responses)  *)
(* are sequences of tokens, so that strings.Contains, strings.Index and the  *)
(* Trim functions are computed and not assumed.  The empty string is <<>>.   *)
(***************************************************************************)
EXTENDS Integers, Sequences, FiniteSets, TLC

\* ------------------------------------------------------------- bounds

\* Cycles Run may start (the immediate one and one per consumed tick).
MaxCycles == 2
\* Entries in one feed document.
MaxBatch == 2
\* Seconds the database clock may advance.
MaxClock == 1
\* SaveAnalysis statements issued against the ledger in SpecStore.
MaxStatements == 3
\* cfg.MaxItems, the limit handed to ListRelevant.
MaxItems == 2

\* ------------------------------------------------------------ strings

Empty == <<>>

IsSpace(t) == t \in {" ", "\n", "\t", "\r"}

RECURSIVE TrimLeft(_)
TrimLeft(s) ==
    IF s # <<>> /\ IsSpace(Head(s)) THEN TrimLeft(Tail(s)) ELSE s

RECURSIVE TrimRight(_)
TrimRight(s) ==
    IF s # <<>> /\ IsSpace(s[Len(s)]) THEN TrimRight(SubSeq(s, 1, Len(s) - 1)) ELSE s

TrimSpace(s) == TrimRight(TrimLeft(s))

HasPrefix(s, p) == Len(s) >= Len(p) /\ SubSeq(s, 1, Len(p)) = p

HasSuffix(s, p) == Len(s) >= Len(p) /\ SubSeq(s, Len(s) - Len(p) + 1, Len(s)) = p

TrimPrefix(s, p) == IF HasPrefix(s, p) THEN SubSeq(s, Len(p) + 1, Len(s)) ELSE s

TrimSuffix(s, p) == IF HasSuffix(s, p) THEN SubSeq(s, 1, Len(s) - Len(p)) ELSE s

\* strings.Index: the 0-based offset of the first occurrence of p, or -1.
Index(s, p) ==
    LET hits == {i \in 0..(Len(s) - Len(p)) : SubSeq(s, i + 1, i + Len(p)) = p}
    IN  IF hits = {} THEN -1 ELSE CHOOSE i \in hits : \A j \in hits : i <= j

Contains(s, p) == Index(s, p) # -1

RECURSIVE ReplaceAll(_, _, _)
ReplaceAll(s, old, new) ==
    IF s = <<>> THEN <<>>
    ELSE IF HasPrefix(s, old)
         THEN new \o ReplaceAll(SubSeq(s, Len(old) + 1, Len(s)), old, new)
         ELSE <<Head(s)>> \o ReplaceAll(Tail(s), old, new)

\* --------------------------------------------------------------- feed

Newsletter == <<"/newsletter/">>

GuidA1 == <<"a1">>
LinkN1 == <<"https://feed.example", "/newsletter/", "1">>
LinkN2 == <<"https://feed.example", "/newsletter/", "2">>
TitleX == <<"Policy X approved">>
TitleT == <<"T">>

NoTime == -1

\* gofeed.Item as Fetch reads it: GUID, Link, Title, PublishedParsed (NoTime
\* for nil) and Description.
Entry(g, l, t, p) ==
    [GUID |-> g, Link |-> l, Title |-> t, PublishedParsed |-> p, Description |-> Empty]

\* The entry of the scenario of the specification: id "a1", a title, a published
\* time and no link.
EntryA1 == Entry(GuidA1, Empty, TitleX, 1)

Entries ==
    { EntryA1,
      Entry(GuidA1, LinkN1, TitleX, 1),
      Entry(Empty, LinkN2, TitleT, NoTime),
      Entry(Empty, Empty, TitleT, 1),
      Entry(Empty, Empty, Empty, NoTime) }

\* The entries the pipeline is run against: the one of the scenario (dropped
\* by Fetch), the same with a newsletter link, and one without GUID or time.
FeedEntries ==
    { EntryA1,
      Entry(GuidA1, LinkN1, TitleX, 1),
      Entry(Empty, LinkN2, TitleT, NoTime) }

Feeds == UNION {[1..n -> FeedEntries] : n \in 0..MaxBatch}

\* The link tried before the GUID.
pickGUIDLinkFirst(entry) ==
    IF entry.Link # Empty THEN entry.Link
    ELSE IF entry.GUID # Empty THEN entry.GUID
    ELSE entry.Title

pickGUID(entry) ==
    IF entry.GUID # Empty THEN entry.GUID
    ELSE IF entry.Link # Empty THEN entry.Link
    ELSE entry.Title

\* A Fetch without its filter.
KeptAll(entry) == TRUE

\* Only entries whose identifier or link contains "/newsletter/" are kept.
Kept(entry) ==
    Contains(pickGUID(entry), Newsletter) \/ Contains(entry.Link, Newsletter)

ToItem(entry, clock) ==
    [GUID        |-> pickGUID(entry),
     Title       |-> entry.Title,
     Link        |-> entry.Link,
     PublishedAt |-> IF entry.PublishedParsed # NoTime THEN entry.PublishedParsed ELSE clock,
     Description |-> entry.Description]

RECURSIVE Fetch(_, _)
Fetch(fd, clock) ==
    IF fd = <<>> THEN <<>>
    ELSE (IF Kept(Head(fd)) THEN <<ToItem(Head(fd), clock)>> ELSE <<>>)
         \o Fetch(Tail(fd), clock)

\* Identifiers an entry of the model can carry.
GUIDs == {pickGUID(e) : e \in Entries}

\* ------------------------------------------------------------- ledger

Nil == <<"nil">>

\* json.Marshal of a []string: null for a nil slice, else the array.
MarshalTags(tags) == IF tags = Nil THEN <<"null">> ELSE <<"[">> \o tags \o <<"]">>

\* json.Unmarshal of the tags column back into a []string.
UnmarshalTags(js) ==
    IF js = <<"null">> \/ js = <<>> THEN Nil ELSE SubSeq(js, 2, Len(js) - 1)

NoRow == [id |-> 0]

RowsOf(table, guid) == {r \in table : r.guid = guid}

\* A query that never finds the row.
ExistsNever(table, guid) == FALSE

\* SELECT 1 FROM news_analysis WHERE guid = ? LIMIT 1.
Exists(table, guid) == RowsOf(table, guid) # {}

RowOf(table, guid) ==
    IF RowsOf(table, guid) # {} THEN CHOOSE r \in table : r.guid = guid ELSE NoRow

\* The INSERT branch of SaveAnalysis: created_at and updated_at take their
\* DEFAULT CURRENT_TIMESTAMP, id the next AUTO_INCREMENT value.
InsertRow(id, clock, item, res) ==
    [id           |-> id,
     guid         |-> item.GUID,
     title        |-> item.Title,
     link         |-> item.Link,
     published_at |-> item.PublishedAt,
     summary      |-> item.Description,
     relevant     |-> res.Relevant,
     category     |-> res.Category,
     reason       |-> res.Reason,
     tags         |-> MarshalTags(res.Tags),
     created_at   |-> clock,
     updated_at   |-> clock]

\* REPLACE INTO in place of ON DUPLICATE KEY UPDATE: the row is deleted and
\* inserted anew, so created_at restarts.
UpdateRowReplace(old, clock, item, res) ==
    InsertRow(old.id, clock, item, res)

\* An update that assigns the columns of the item and leaves the verdict.
UpdateRowItemOnly(old, clock, item, res) ==
    [old EXCEPT !.title = item.Title, !.link = item.Link,
                !.published_at = item.PublishedAt, !.summary = item.Description,
                !.updated_at = clock]

\* The ON DUPLICATE KEY UPDATE branch: id and created_at are not assigned.
UpdateRow(old, clock, item, res) ==
    [InsertRow(old.id, clock, item, res) EXCEPT !.created_at = old.created_at]

\* The statement on a table whose guid column is not UNIQUE.
SaveAnalysisInsertOnly(table, id, clock, item, res) ==
    table \cup {InsertRow(id, clock, item, res)}

\* The table after the statement of SaveAnalysis has succeeded.  guid is
\* UNIQUE: a row with the same guid is updated, otherwise one is inserted.
SaveAnalysis(table, id, clock, item, res) ==
    IF RowsOf(table, item.GUID) # {}
    THEN (table \ RowsOf(table, item.GUID))
            \cup {UpdateRow(RowOf(table, item.GUID), clock, item, res)}
    ELSE table \cup {InsertRow(id, clock, item, res)}

\* A statement that is applied although the call returns an error.
SavedTableDespiteError(err, table, id, clock, item, res) ==
    SaveAnalysis(table, id, clock, item, res)

\* The table after a call of SaveAnalysis: an error of ExecContext means the
\* statement was not applied.
SavedTable(err, table, id, clock, item, res) ==
    IF err THEN table ELSE SaveAnalysis(table, id, clock, item, res)

\* ORDER BY published_at DESC, id ASC.
OrderByIdAsc(r, q) ==
    \/ r.published_at > q.published_at
    \/ r.published_at = q.published_at /\ r.id < q.id

\* ORDER BY published_at DESC, id DESC.
OrderBy(r, q) ==
    \/ r.published_at > q.published_at
    \/ r.published_at = q.published_at /\ r.id > q.id

RECURSIVE Sorted(_)
Sorted(S) ==
    IF S = {} THEN <<>>
    ELSE LET r == CHOOSE x \in S : \A q \in S \ {x} : OrderBy(x, q)
         IN  <<r>> \o Sorted(S \ {r})

StoredItem(r) ==
    [GUID        |-> r.guid,
     Title       |-> r.title,
     Link        |-> r.link,
     PublishedAt |-> r.published_at,
     Category    |-> r.category,
     Reason      |-> r.reason,
     Tags        |-> UnmarshalTags(r.tags),
     Relevant    |-> r.relevant]

Scan(rs) == [i \in 1..Len(rs) |-> StoredItem(rs[i])]

\* The query without its WHERE clause.
ListAll(table, limit) ==
    LET hit == Sorted(table)
    IN  Scan(SubSeq(hit, 1, IF Len(hit) < limit THEN Len(hit) ELSE limit))

\* WHERE relevant = 1 ORDER BY ... LIMIT ?, read back row by row.
ListRelevant(table, limit) ==
    LET hit == Sorted({r \in table : r.relevant})
    IN  Scan(SubSeq(hit, 1, IF Len(hit) < limit THEN Len(hit) ELSE limit))

\* itemsHandler after its ListRelevant call: 500 with a text for an error,
\* else 200 with count and items.  A list without rows is a nil slice, which
\* the encoder writes as null.
itemsHandler(err, its) ==
    IF err
    THEN [status |-> 500, body |-> "internal error"]
    ELSE [status |-> 200,
          body   |-> [count |-> Len(its), items |-> its, null |-> its = <<>>]]


\* --------------------------------------------------------- classifier

\* Three backquote characters, each written "bq".
Fence     == <<"bq", "bq", "bq">>
FenceJson == Fence \o <<"json">>

KRelevant == "\"relevant\":"
KCategory == "\"category\":"

\* The two arguments of the strings.ReplaceAll call of cleanupResponse.
CategoryNull  == <<KCategory, " ", "null">>
CategoryEmpty == <<KCategory, " ", "\"\"">>

cleanupResponse(s) ==
    LET c0  == TrimSpace(s)
        idx == Index(c0, <<"\n">>)
        c1  == IF idx # -1 THEN SubSeq(c0, idx + 2, Len(c0)) ELSE c0
        c2  == TrimPrefix(c1, FenceJson)
        c3  == TrimPrefix(c2, Fence)
        c4  == TrimSuffix(c3, Fence)
        c5  == IF HasPrefix(c0, Fence) THEN TrimSpace(c4) ELSE c0
    IN  ReplaceAll(c5, CategoryNull, CategoryEmpty)

\* analysis.Result; the zero value is what Evaluate returns beside an error.
Result(rel, cat, reason, tags) ==
    [Relevant |-> rel, Category |-> cat, Reason |-> reason, Tags |-> tags]

ZeroResult == Result(FALSE, "", "", Nil)

Booleans == {"true", "false"}
Unquote(t) == CASE t = "\"\"" -> "" [] t = "\"policy\"" -> "policy" [] OTHER -> "?"
IsString(t) == t \in {"\"\"", "\"policy\""}

\* An object without members, which the model may answer.
EmptyObject == <<"{", "}">>

\* json.Unmarshal into a Result: the text must be one JSON value (white space
\* around tokens allowed); null leaves a field at its zero value, and so does
\* a member that is missing.
Unmarshal(c) ==
    LET t == SelectSeq(c, LAMBDA x : ~IsSpace(x))
    IN  IF t = EmptyObject THEN [err |-> FALSE, out |-> ZeroResult]
        ELSE
        IF /\ Len(t) = 7
           /\ t[1] = "{" /\ t[2] = KRelevant /\ t[3] \in Booleans /\ t[4] = ","
           /\ t[5] = KCategory /\ (t[6] = "null" \/ IsString(t[6])) /\ t[7] = "}"
        THEN [err |-> FALSE,
              out |-> Result(t[3] = "true",
                             IF t[6] = "null" THEN "" ELSE Unquote(t[6]), "", Nil)]
        ELSE [err |-> TRUE, out |-> ZeroResult]

\* Evaluate from the model's answer on: normalise, then parse.
ParseContent(s) == Unmarshal(cleanupResponse(s))

\* The verdict object as the model writes it: on one line or one member per
\* line, the category null (with or without the space after the colon) or a
\* string.
Body(rel, cat, lines) ==
    LET nl == IF lines THEN <<"\n">> ELSE <<>>
        sp == IF lines THEN <<>> ELSE <<" ">>
    IN  <<"{">> \o nl \o <<KRelevant, " ", rel, ",">> \o nl \o sp \o cat \o nl \o <<"}">>

Categories ==
    { CategoryNull, <<KCategory, "null">>, <<KCategory, " ", "\"policy\"">> }

Bodies == {Body(rel, cat, lines) : rel \in Booleans, cat \in Categories, lines \in BOOLEAN}

Openers == {<<>>, Fence, FenceJson}
Gaps    == {<<>>, <<" ">>, <<"\n">>}
Closers == {<<>>, Fence}

\* Answers of the model: a verdict object, bare or between fences.
Responses ==
    { lead \o open \o gap \o body \o tail \o close :
        lead \in {<<>>, <<"\n">>}, open \in Openers, gap \in Gaps,
        body \in Bodies, tail \in {<<>>, <<"\n">>}, close \in Closers }

\* The answers the pipeline is run against: a relevant verdict with a
\* category and a not relevant one with a null category, on one line, bare or
\* fenced with the tag, the object on the opening line or on its own line;
\* and an object without members.
Answers ==
    {EmptyObject} \cup
    { open \o gap \o body \o <<"\n">> \o (IF open = <<>> THEN <<>> ELSE Fence) :
        open \in {<<>>, FenceJson}, gap \in {<<>>, <<"\n">>},
        body \in { Body("true", <<KCategory, " ", "\"policy\"">>, FALSE),
                   Body("false", CategoryNull, FALSE) } }

\* -------------------------------------------------------------- state

VARIABLES
    pc,          \* where the process is: main, fatal; in Run: fetch, exists,
                 \* evaluate, save, notify (inside pollOnce), ticker, select,
                 \* returned
    storeReady,  \* NewMySQLStore has returned a store
    cancelled,   \* ctx.Done() is closed
    ticker,      \* time.NewTicker has run and the ticker is not stopped
    tick,        \* a tick waits in ticker.C
    cycles,      \* calls of pollOnce so far
    ticks,       \* ticks the select of Run has received from ticker.C
    capped,      \* the ticker stops after MaxCycles cycles (else it goes on
                 \* and the two counts above stay at their bound)
    traced,      \* the history keeps which calls failed or were cut short
                 \* (cyc.aborted, cyc.again, the third field of notifyArgs)
    activated,   \* Client.activated: an API key was configured
    calls,       \* per concurrent caller of SaveAnalysis: where its call is,
                 \* its arguments, its error and the second it was applied in
    applied,     \* the callers in the order the database applied their statements
    feed,        \* the entries of the feed document of this cycle
    items,       \* pollOnce: the items Fetch returned
    idx,         \* pollOnce: position of the range loop (1-based)
    result,      \* pollOnce: the Result of Evaluate for the current item
    rows,        \* table news_analysis
    nextId,      \* its AUTO_INCREMENT counter
    now,         \* CURRENT_TIMESTAMP, in seconds
    statements,  \* SaveAnalysis statements issued directly against the store
    insertSeq,   \* history: the guids in the order their rows were inserted
    lastCall,    \* history: the latest successful SaveAnalysis call and the row it found
    saveOK,      \* history: successful SaveAnalysis calls per identifier
    saveRelOK,   \* history: those with Relevant = TRUE
    notifyCalls, \* history: notifyWebhook calls per identifier
    notifyArgs,  \* history: (identifier, Relevant, failed) of every notifyWebhook call
    cyc,         \* history: what happened to each item of the current cycle
    content,     \* the model answer handed to the normalisation
    evalOut,     \* what Evaluate made of it
    listed,      \* what the latest ListRelevant call returned
    response     \* what itemsHandler wrote for the latest GET /items

vars == <<pc, storeReady, cancelled, ticker, tick, cycles, ticks, capped, traced, activated, calls, applied, feed, items, idx, result,
          rows, nextId, now, statements, insertSeq, lastCall, saveOK,
          saveRelOK, notifyCalls, notifyArgs, cyc, content, evalOut, listed,
          response>>

runVars   == <<pc, storeReady, cancelled, ticker, tick, cycles, ticks, capped, traced, activated, calls, applied>>
loopVars  == <<feed, items, idx, result>>
storeVars == <<rows, nextId, insertSeq, lastCall, saveOK, saveRelOK>>
histVars  == <<notifyCalls, notifyArgs, cyc>>
evalVars  == <<content, evalOut, listed, response>>

NoCall == [ok |-> FALSE, prev |-> NoRow]
NoSave == [pc |-> "idle"]

\* The goroutines that call SaveAnalysis on the one Store at the same time.
Callers == {"c1", "c2"}

NoResponse == [status |-> 0]
NoOut  == [err |-> FALSE, out |-> ZeroResult, set |-> FALSE]

\* The record of a cycle: for each position of the batch, the step that ended
\* it.  rows0 is the table when the cycle began, snap the row found by each
\* existence check that answered "present", aborted the positions whose
\* Evaluate or SaveAnalysis call was ended by the cancellation of ctx when it
\* would have succeeded, again the positions whose identifier failed at a step
\* of the cycle before and was not stored.
NewCyc(table) ==
    [fetched   |-> FALSE,
     rows0     |-> table,
     existsErr |-> {},
     present   |-> {},
     snap      |-> {},
     evald     |-> {},
     evalErr   |-> {},
     rel       |-> {},
     saveTried |-> {},
     saveErr   |-> {},
     saved     |-> {},
     aborted   |-> {},
     again     |-> {},
     notified  |-> <<>>]

Zero == [g \in GUIDs |-> 0]

\* The positions of the current cycle that ended in an error of Exists,
\* Evaluate or SaveAnalysis, and the identifiers among them without a row.
FailedAt == cyc.existsErr \cup cyc.evalErr \cup cyc.saveErr

FailedGuids == {items[i].GUID : i \in FailedAt} \ {r.guid : r \in rows}

InitCommon ==
    /\ cancelled = FALSE /\ ticker = FALSE /\ tick = FALSE /\ ticks = 0
    /\ feed = <<>> /\ items = <<>> /\ idx = 0 /\ result = ZeroResult
    /\ rows = {} /\ nextId = 1 /\ now = 0 /\ statements = 0
    /\ insertSeq = <<>> /\ lastCall = NoCall
    /\ saveOK = Zero /\ saveRelOK = Zero /\ notifyCalls = Zero
    /\ notifyArgs = {}
    /\ cyc = NewCyc({})
    /\ response = NoResponse
    /\ calls = [c \in Callers |-> NoSave] /\ applied = <<>>

\* main has built the analyzer and the fetcher and is about to build the
\* store.
Init ==
    /\ InitCommon
    /\ pc = "main" /\ storeReady = FALSE /\ cycles = 0 /\ capped = TRUE /\ traced = FALSE
    /\ activated \in BOOLEAN
    /\ content = <<>> /\ evalOut = NoOut /\ listed = <<>>

\* ------------------------------------------------------------ pollOnce

\* Where pollOnce returns to: the NewTicker call after the first cycle, the
\* select of the loop after the others.
ReturnPc == IF ticker THEN "select" ELSE "ticker"

\* A pollOnce that ranges over the entries parsed before Fetch failed.
FetchedItemsDespiteError(err, fd, clock) == Fetch(fd, clock)

\* Lines 84-88: the items pollOnce ranges over; after an error of Fetch it
\* returns at once, which is a range over nothing.
FetchedItems(err, fd, clock) == IF err THEN <<>> ELSE Fetch(fd, clock)

\* The check "if exists { continue }" left out.
AfterExistsNoSkip(err, exists) == IF err THEN "continue" ELSE "evaluate"

\* Lines 91-98: an error of Exists and a guid already stored both continue
\* with the next item.
AfterExists(err, exists) ==
    IF err THEN "continue" ELSE IF exists THEN "continue" ELSE "evaluate"

\* A pollOnce that classifies and never saves.
AfterEvaluateNeverSave(err) == "continue"

\* The error of Evaluate ignored: the Result beside it is saved.
AfterEvaluateSaveAnyway(err) == "save"

\* return in place of continue after an error of Evaluate.
AfterEvaluateReturn(err) == IF err THEN "return" ELSE "save"

\* Lines 100-109: an error of Evaluate continues with the next item.
AfterEvaluate(err) == IF err THEN "continue" ELSE "save"

\* The test of result.Relevant left out.
AfterSaveAlwaysNotify(err, res) == IF err THEN "continue" ELSE "notify"

\* The continue after an error of SaveAnalysis left out.
AfterSaveIgnoreError(err, res) == IF res.Relevant THEN "notify" ELSE "continue"

\* pollOnce without its call of notifyWebhook.
AfterSaveNoNotify(err, res) == "continue"

\* Lines 111-118: an error of SaveAnalysis continues with the next item; the
\* webhook is called for a saved item whose Result is relevant.
AfterSave(err, res) ==
    IF err THEN "continue" ELSE IF res.Relevant THEN "notify" ELSE "continue"

\* The range loop: the next item, or the end of pollOnce.
Goto(t) ==
    CASE t = "continue" ->
            IF idx < Len(items)
            THEN idx' = idx + 1 /\ pc' = "exists"
            ELSE idx' = idx /\ pc' = ReturnPc
      [] t = "return" -> idx' = idx /\ pc' = ReturnPc
      [] OTHER -> idx' = idx /\ pc' = t

\* pollOnce, lines 83-88: Fetch; its error ends the cycle.  A cancelled ctx
\* fails the request.
PollFetch ==
    /\ pc = "fetch"
    /\ \E err \in BOOLEAN, fd \in Feeds :
        /\ cancelled => err
        /\ feed' = IF err THEN <<>> ELSE fd
        /\ items' = FetchedItems(err, fd, now)
        /\ cyc' = [NewCyc(rows) EXCEPT
                      !.fetched = ~err,
                      !.again = {i \in 1..Len(FetchedItems(err, fd, now)) :
                                   /\ traced
                                   /\ FetchedItems(err, fd, now)[i].GUID \in FailedGuids}]
        /\ IF FetchedItems(err, fd, now) = <<>>
           THEN idx' = 0 /\ pc' = ReturnPc
           ELSE idx' = 1 /\ pc' = "exists"
    /\ result' = ZeroResult
    /\ UNCHANGED <<storeReady, cancelled, ticker, tick, cycles, ticks, capped, traced, activated, calls, applied, statements>>
    /\ UNCHANGED <<storeVars, now, notifyCalls, notifyArgs, evalVars>>

\* Lines 91-98: the existence check of the current item.
PollExists ==
    /\ pc = "exists"
    /\ \E err \in BOOLEAN :
        /\ cancelled => err
        /\ LET g  == items[idx].GUID
               ex == Exists(rows, g)
           IN  /\ cyc' = IF err THEN [cyc EXCEPT !.existsErr = @ \cup {idx}]
                         ELSE IF ex
                         THEN [cyc EXCEPT !.present = @ \cup {idx},
                                          !.snap = @ \cup {<<idx, RowOf(rows, g)>>}]
                         ELSE cyc
               /\ Goto(AfterExists(err, ex))
    /\ UNCHANGED <<storeReady, cancelled, ticker, tick, cycles, ticks, capped, traced, activated, calls, applied, statements>>
    /\ UNCHANGED <<feed, items, result, storeVars, now>>
    /\ UNCHANGED <<notifyCalls, notifyArgs, evalVars>>

Failed == [err |-> TRUE, out |-> ZeroResult]

\* Lines 280-287 on each answer of the model.
AnswerOutcomes == {ParseContent(a) : a \in Answers}

\* What one call of Evaluate returns when ctx stays open: errDisabled without
\* a key; else the error of the request, the error for an answer without
\* choices, or what the normalisation makes of the answer's content.
EvaluateOutcomes ==
    IF ~activated
    THEN {Failed}
    ELSE {Failed} \cup AnswerOutcomes

\* Evaluate hands ctx to CreateChatCompletion (line 265): with ctx cancelled
\* the request ends with the error of ctx, whatever the answer would have been.
EvaluateCtx(canc, o) == IF canc THEN Failed ELSE o

\* SaveAnalysis hands ctx to ExecContext (mysql.go line 115): with ctx
\* cancelled the statement ends with the error of ctx.
SaveCtx(canc, err) == canc \/ err

\* Lines 100-109: classify the current item.  pc = "evaluate" is the call of
\* Evaluate under way; o is what it would return with ctx open.
PollEvaluate ==
    /\ pc = "evaluate"
    /\ \E o \in EvaluateOutcomes :
        LET r == EvaluateCtx(cancelled, o)
        IN  /\ result' = r.out
            /\ cyc' = [cyc EXCEPT !.evald = @ \cup {idx},
                                  !.evalErr = IF r.err THEN @ \cup {idx} ELSE @,
                                  !.rel = IF ~r.err /\ r.out.Relevant THEN @ \cup {idx} ELSE @,
                                  !.aborted = IF traced /\ r # o THEN @ \cup {idx} ELSE @]
            /\ Goto(AfterEvaluate(r.err))
    /\ UNCHANGED <<storeReady, cancelled, ticker, tick, cycles, ticks, capped, traced, activated, calls, applied, statements>>
    /\ UNCHANGED <<feed, items, storeVars, now, notifyCalls, notifyArgs, evalVars>>

\* One SaveAnalysis statement on the table.  An UPDATE keeps the id of its
\* row; InnoDB may still consume an AUTO_INCREMENT value for it.
DbSave(item, res, err) ==
    LET had == RowsOf(rows, item.GUID) # {}
    IN  /\ rows' = SavedTable(err, rows, nextId, now, item, res)
        /\ \E gap \in BOOLEAN :
              nextId' = IF ~err /\ (~had \/ gap) THEN nextId + 1 ELSE nextId
        /\ insertSeq' = IF ~err /\ ~had THEN Append(insertSeq, item.GUID) ELSE insertSeq
        /\ lastCall' = IF err THEN lastCall
                        ELSE [ok |-> TRUE, prev |-> RowOf(rows, item.GUID),
                              item |-> item, res |-> res, at |-> now]
        /\ saveOK' = IF err THEN saveOK ELSE [saveOK EXCEPT ![item.GUID] = @ + 1]
        /\ saveRelOK' = IF ~err /\ res.Relevant
                        THEN [saveRelOK EXCEPT ![item.GUID] = @ + 1] ELSE saveRelOK

\* Lines 111-114: persist the verdict of the current item.  pc = "save" is
\* the call of SaveAnalysis under way; dbErr is whether the statement would
\* fail with ctx open.
PollSave ==
    /\ pc = "save"
    /\ \E dbErr \in BOOLEAN :
        LET err == SaveCtx(cancelled, dbErr)
        IN  /\ DbSave(items[idx], result, err)
            /\ cyc' = [cyc EXCEPT !.saveTried = @ \cup {idx},
                                  !.saveErr = IF err THEN @ \cup {idx} ELSE @,
                                  !.saved = IF err THEN @ ELSE @ \cup {idx},
                                  !.aborted = IF traced /\ err # dbErr THEN @ \cup {idx} ELSE @]
            /\ Goto(AfterSave(err, result))
            /\ result' = IF AfterSave(err, result) = "notify" THEN result ELSE ZeroResult
    /\ UNCHANGED <<storeReady, cancelled, ticker, tick, cycles, ticks, capped, traced, activated, calls, applied, statements>>
    /\ UNCHANGED <<feed, items, now, notifyCalls, notifyArgs, evalVars>>

\* A notifyWebhook whose failure ends the cycle.
AfterNotifyReturn(failed) == IF failed THEN "return" ELSE "continue"

\* notifyWebhook returns nothing: a request that cannot be built or sent
\* (lines 161-172) and an answer that is not 2xx (lines 175-177) are logged,
\* and the range loop goes on.
AfterNotify(failed) == "continue"

\* Lines 116-118 and notifyWebhook: the call is made with the ctx of Run, so
\* a cancelled ctx fails the request.
PollNotify ==
    /\ pc = "notify"
    /\ \E failed \in BOOLEAN :
        /\ cancelled => failed
        /\ notifyArgs' = notifyArgs \cup {<<items[idx].GUID, result.Relevant, traced /\ failed>>}
        /\ Goto(AfterNotify(failed))
    /\ notifyCalls' = [notifyCalls EXCEPT ![items[idx].GUID] = @ + 1]
    /\ cyc' = [cyc EXCEPT !.notified = Append(@, idx)]
    /\ result' = ZeroResult
    /\ UNCHANGED <<storeReady, cancelled, ticker, tick, cycles, ticks, capped, traced, activated, calls, applied, statements>>
    /\ UNCHANGED <<feed, items, storeVars, now, evalVars>>

\* ---------------------------------------------------------- main, Run

\* Run with the calls of lines 66 and 68 exchanged: the ticker first.
RunFirstTicker == "ticker"

\* Lines 65-66: the first thing Run does in its own goroutine is a call of
\* pollOnce, before the ticker exists.
RunFirst == "fetch"

\* main going on to Run with the store it did not get.
AfterStoreInitIgnoreError(err) == "run"

\* main, lines 26-29: an error of NewMySQLStore ends the process in
\* logger.Fatalf (os.Exit(1)).
AfterStoreInit(err) == IF err THEN "fatal" ELSE "run"

\* main, lines 26-34: NewMySQLStore, then NewService and Run up to its first
\* step.
Main ==
    /\ pc = "main"
    /\ \E err \in BOOLEAN :
        /\ storeReady' = ~err
        /\ IF AfterStoreInit(err) = "fatal"
           THEN pc' = "fatal" /\ cycles' = cycles
           ELSE pc' = RunFirst /\ cycles' = IF RunFirst = "fetch" THEN 1 ELSE 0
    /\ UNCHANGED <<cancelled, ticker, tick, ticks, capped, traced, activated, calls, applied, statements>>
    /\ UNCHANGED <<loopVars, storeVars, now, histVars, evalVars>>

\* Line 68: the ticker is created after the first pollOnce has returned.
NewTicker ==
    /\ pc = "ticker"
    /\ ticker' = TRUE /\ pc' = "select"
    /\ UNCHANGED <<storeReady, cancelled, tick, cycles, ticks, capped, traced, activated, calls, applied, statements>>
    /\ UNCHANGED <<loopVars, storeVars, now, histVars, evalVars>>

\* The runtime puts a tick into ticker.C (capacity 1) when the period is over.
TickerFire ==
    /\ ticker /\ ~tick
    /\ capped => cycles < MaxCycles
    /\ tick' = TRUE
    /\ UNCHANGED <<pc, storeReady, cancelled, ticker, cycles, ticks, capped, traced, activated, calls, applied, statements>>
    /\ UNCHANGED <<loopVars, storeVars, now, histVars, evalVars>>

\* break in place of return nil: it leaves the select, not the for loop.
AfterDoneBreak == "select"

\* Lines 73-75: the case of ctx.Done() returns nil from Run.
AfterDone == "returned"

\* Lines 71-79: the select.  With both channels ready Go picks either case.
\* The deferred ticker.Stop() runs when Run returns.
RunSelect ==
    /\ pc = "select"
    /\ \/ /\ cancelled
          /\ pc' = AfterDone /\ ticker' = IF AfterDone = "returned" THEN FALSE ELSE ticker
          /\ UNCHANGED <<tick, cycles, ticks>>
       \/ /\ tick
          /\ tick' = FALSE /\ pc' = "fetch"
          /\ IF cycles < MaxCycles
             THEN cycles' = cycles + 1 /\ ticks' = ticks + 1
             ELSE UNCHANGED <<cycles, ticks>>
          /\ UNCHANGED ticker
    /\ UNCHANGED <<storeReady, cancelled, capped, traced, activated, calls, applied, statements>>
    /\ UNCHANGED <<loopVars, storeVars, now, histVars, evalVars>>

\* The caller of Run cancels ctx.
Cancel ==
    /\ ~cancelled /\ pc \notin {"main", "fatal", "returned"}
    /\ cancelled' = TRUE
    /\ UNCHANGED <<pc, storeReady, ticker, tick, cycles, ticks, capped, traced, activated, calls, applied, statements>>
    /\ UNCHANGED <<loopVars, storeVars, now, histVars, evalVars>>

\* A second passes on the clock of the database.
Clock ==
    /\ now < MaxClock
    /\ now' = now + 1
    /\ UNCHANGED <<runVars, statements, loopVars, storeVars, histVars, evalVars>>

Next ==
    \/ Main
    \/ PollFetch
    \/ PollExists
    \/ PollEvaluate
    \/ PollSave
    \/ PollNotify
    \/ NewTicker
    \/ TickerFire
    \/ RunSelect
    \/ Cancel
    \/ Clock

Spec == Init /\ [][Next]_vars

\* ------------------------------------------------- Run without an end

\* As Init, with a ticker that goes on for ever and a clock that stands.
InitLive ==
    /\ InitCommon
    /\ pc = "main" /\ storeReady = FALSE /\ cycles = 0 /\ capped = FALSE /\ traced = FALSE
    /\ activated \in BOOLEAN
    /\ content = <<>> /\ evalOut = NoOut /\ listed = <<>>

NextLive ==
    \/ Main
    \/ PollFetch
    \/ PollExists
    \/ PollEvaluate
    \/ PollSave
    \/ PollNotify
    \/ NewTicker
    \/ TickerFire
    \/ RunSelect
    \/ Cancel

\* The call of Evaluate returns.  This is WF_vars(PollEvaluate) written out:
\* PollEvaluate is enabled exactly when pc = "evaluate" (an error is always
\* among its outcomes) and each of its steps leaves that pc.
EvaluateReturns == []<>(pc # "evaluate")

\* The goroutine of Run goes on whenever it can: every call it makes returns
\* and the select takes a case that is ready.  The runtime delivers a tick
\* whenever ticker.C is empty.  Nothing is assumed of the outcome of a call, of
\* the case the select takes when both are ready, or of the caller of Run.
Fairness ==
    /\ WF_vars(Main)
    /\ WF_vars(PollFetch)
    /\ WF_vars(PollExists)
    /\ EvaluateReturns
    /\ WF_vars(PollSave)
    /\ WF_vars(PollNotify)
    /\ WF_vars(NewTicker)
    /\ WF_vars(TickerFire)
    /\ WF_vars(RunSelect)

SpecLive == InitLive /\ [][NextLive]_vars /\ Fairness

\* ------------------------------------- Run with the history of failures

\* As Init, with a clock that stands and the history of the failed calls.
InitTrace ==
    /\ InitCommon
    /\ pc = "main" /\ storeReady = FALSE /\ cycles = 0 /\ capped = TRUE /\ traced = TRUE
    /\ activated \in BOOLEAN
    /\ content = <<>> /\ evalOut = NoOut /\ listed = <<>>

SpecTrace == InitTrace /\ [][NextLive]_vars

\* ------------------------------- Run with a webhook that may not answer

\* As Fairness, but a notifyWebhook call returns for certain only once ctx is
\* cancelled: the request is sent with http.DefaultClient (line 168), which
\* has no timeout, and with the ctx of Run (line 161), which ends it only when
\* the caller of Run cancels.
FairnessNotifyHangs ==
    /\ WF_vars(Main)
    /\ WF_vars(PollFetch)
    /\ WF_vars(PollExists)
    /\ EvaluateReturns
    /\ WF_vars(PollSave)
    /\ WF_vars(cancelled /\ PollNotify)
    /\ WF_vars(NewTicker)
    /\ WF_vars(TickerFire)
    /\ WF_vars(RunSelect)

SpecNotifyHangs == InitLive /\ [][NextLive]_vars /\ FairnessNotifyHangs

\* ------------------------------------------- Run, the select after Cancel

\* The select takes the case of ctx.Done().
SelectDone == RunSelect /\ pc' = "returned"

\* Go's select picks among the cases that are ready by a uniform random
\* choice, so a case that is ready at select after select is taken at last:
\* strong fairness of the case of ctx.Done().  The calls under way return
\* (those of notifyWebhook once ctx is cancelled).
FairnessSelect ==
    /\ FairnessNotifyHangs
    /\ SF_vars(SelectDone)

SpecSelect == InitLive /\ [][NextLive]_vars /\ FairnessSelect

\* --------------------------------------------------------- the store

\* Items and Results handed to SaveAnalysis when the store is driven directly.
StoreItems ==
    { [GUID |-> g, Title |-> t, Link |-> LinkN1, PublishedAt |-> p, Description |-> Empty] :
        g \in {GuidA1, LinkN1, LinkN2}, t \in {TitleX}, p \in 1..2 }

StoreResults ==
    { Result(TRUE, "policy", "r", <<"X">>),
      Result(FALSE, "", "r2", Nil) }

InitStore ==
    /\ InitCommon
    /\ pc = "store" /\ storeReady = TRUE /\ cycles = 0 /\ capped = TRUE /\ traced = FALSE
    /\ activated = TRUE
    /\ content = <<>> /\ evalOut = NoOut /\ listed = <<>>

\* Store.SaveAnalysis called by any caller, with any item and Result.
StoreSave ==
    /\ pc = "store" /\ statements < MaxStatements
    /\ statements' = statements + 1
    /\ \E item \in StoreItems, res \in StoreResults, err \in BOOLEAN :
          DbSave(item, res, err)
    /\ UNCHANGED <<runVars, loopVars, now, histVars, evalVars>>

\* The handler of GET /items, which runs beside Run and its callers: one
\* ListRelevant query with cfg.MaxItems, then the answer.
ItemsHandler ==
    /\ pc = "store"
    /\ \E err \in BOOLEAN :
        /\ listed' = IF err THEN <<>> ELSE ListRelevant(rows, MaxItems)
        /\ response' = itemsHandler(err, IF err THEN <<>> ELSE ListRelevant(rows, MaxItems))
    /\ UNCHANGED <<runVars, statements, loopVars, storeVars, now, histVars, content, evalOut>>

NextStore ==
    \/ StoreSave
    \/ ItemsHandler
    \/ Clock

SpecStore == InitStore /\ [][NextStore]_vars

\* ---------------------------------------- the store, concurrent callers

\* What they save: two versions of one identifier and another identifier.
ConcItems ==
    { [GUID |-> GuidA1, Title |-> TitleX, Link |-> LinkN1, PublishedAt |-> 1, Description |-> Empty],
      [GUID |-> GuidA1, Title |-> TitleT, Link |-> LinkN2, PublishedAt |-> 2, Description |-> Empty],
      [GUID |-> LinkN1, Title |-> TitleX, Link |-> LinkN1, PublishedAt |-> 1, Description |-> Empty] }

ConcResults == StoreResults \cup {Result(TRUE, "defi", "r3", <<"Y">>)}

\* SaveAnalysis, lines 114-115: caller c has marshalled the tags and handed
\* its one statement to ExecContext.  Nothing is shared between two calls but
\* the database.
CallSave(c) ==
    /\ pc = "store" /\ calls[c].pc = "idle"
    /\ \E item \in ConcItems, res \in ConcResults :
          calls' = [calls EXCEPT ![c] = [pc |-> "exec", item |-> item, res |-> res]]
    /\ UNCHANGED <<pc, storeReady, cancelled, ticker, tick, cycles, ticks, capped, traced, activated, applied>>
    /\ UNCHANGED <<statements, loopVars, storeVars, now, histVars, evalVars>>

\* The database executes the statement of caller c.  InnoDB runs one
\* statement under autocommit as one transaction and locks the row of the
\* UNIQUE guid for it, so two statements on one guid are applied one after
\* the other; lines 129-132 return its error.
ExecSave(c) ==
    /\ pc = "store" /\ calls[c].pc = "exec"
    /\ \E err \in BOOLEAN :
          /\ DbSave(calls[c].item, calls[c].res, err)
          /\ calls' = [calls EXCEPT ![c] = [@ EXCEPT !.pc = "done"] @@ [err |-> err, at |-> now]]
          /\ applied' = IF err THEN applied ELSE Append(applied, c)
    /\ UNCHANGED <<pc, storeReady, cancelled, ticker, tick, cycles, ticks, capped, traced, activated>>
    /\ UNCHANGED <<statements, loopVars, now, histVars, evalVars>>

InitConcurrent == InitStore

NextConcurrent ==
    \/ \E c \in Callers : CallSave(c)
    \/ \E c \in Callers : ExecSave(c)
    \/ ItemsHandler
    \/ Clock

SpecConcurrent == InitConcurrent /\ [][NextConcurrent]_vars

\* ------------------------------------------------- Fetch, any entries

\* Entries with every combination of an empty, a plain and a newsletter GUID,
\* link and title.
AnyEntries ==
    { Entry(g, l, t, 1) :
        g \in {Empty, GuidA1, <<"g", "/newsletter/">>},
        l \in {Empty, <<"https://other.example">>, LinkN1},
        t \in {Empty, TitleT, <<"/newsletter/", "t">>} }

AnyFeeds == UNION {[1..n -> AnyEntries] : n \in 1..MaxBatch}

InitFetch ==
    /\ InitCommon
    /\ pc = "parse" /\ storeReady = TRUE /\ cycles = 0 /\ capped = TRUE /\ traced = FALSE
    /\ activated = TRUE
    /\ content = <<>> /\ evalOut = NoOut /\ listed = <<>>

\* Fetch, line 39: the parser returns the entries of the feed document.
ParseFeed ==
    /\ pc = "parse"
    /\ feed' \in AnyFeeds
    /\ pc' = "range"
    /\ UNCHANGED <<storeReady, cancelled, ticker, tick, cycles, ticks, capped, traced, activated, calls, applied>>
    /\ UNCHANGED <<statements, items, idx, result, storeVars, now, histVars, evalVars>>

\* Fetch, lines 44-63: the range over the entries and the return.
FetchItems ==
    /\ pc = "range"
    /\ items' = Fetch(feed, now)
    /\ pc' = "fetched"
    /\ UNCHANGED <<storeReady, cancelled, ticker, tick, cycles, ticks, capped, traced, activated, calls, applied>>
    /\ UNCHANGED <<statements, feed, idx, result, storeVars, now, histVars, evalVars>>

NextFetch ==
    \/ ParseFeed
    \/ FetchItems

SpecFetch == InitFetch /\ [][NextFetch]_vars

\* ------------------------------------------------- Evaluate, the parse

InitEvaluate ==
    /\ InitCommon
    /\ pc = "content" /\ storeReady = TRUE /\ cycles = 0 /\ capped = TRUE /\ traced = FALSE
    /\ activated = TRUE
    /\ content \in Responses /\ evalOut = NoOut /\ listed = <<>>

\* Evaluate, lines 280-287, on the content of the first choice.
Normalize ==
    /\ pc = "content"
    /\ evalOut' = [err |-> ParseContent(content).err,
                   out |-> ParseContent(content).out, set |-> TRUE]
    /\ pc' = "parsed"
    /\ UNCHANGED <<storeReady, cancelled, ticker, tick, cycles, ticks, capped, traced, activated, calls, applied, statements>>
    /\ UNCHANGED <<loopVars, storeVars, now, histVars, content, listed, response>>

NextEvaluate == Normalize

SpecEvaluate == InitEvaluate /\ [][NextEvaluate]_vars

\* ------------------------------------------------------------- claims

\* pollOnce has returned: what cyc records is a whole cycle.
CycleDone == pc \in {"ticker", "select", "returned"}

Notified(i) == \E k \in 1..Len(cyc.notified) : cyc.notified[k] = i

TimesNotified(i) == Cardinality({k \in 1..Len(cyc.notified) : cyc.notified[k] = i})

DistinctGuids ==
    \A i, j \in 1..Len(items) : items[i].GUID = items[j].GUID => i = j

\* The position in insertSeq of the insertion of the row of g (0: none).
InsertPos(g) ==
    LET ks == {k \in 1..Len(insertSeq) : insertSeq[k] = g}
    IN  IF ks = {} THEN 0 ELSE CHOOSE k \in ks : \A m \in ks : m <= k

\* C1: an item whose identifier is in the ledger when its existence check
\* runs is, in that cycle, not handed to Evaluate, to SaveAnalysis or to
\* notifyWebhook, and the row the check found (created_at included) is still
\* the stored row for the rest of the cycle and after it.
C1_PresentItemUntouched ==
    \A i \in cyc.present :
        /\ i \notin cyc.evald
        /\ i \notin cyc.saveTried
        /\ ~Notified(i)
        /\ \A p \in cyc.snap : p[1] = i => p[2] \in rows

\* A finished cycle in which an item was found in the ledger.
C1_Witness == CycleDone /\ cyc.present # {} /\ cycles = 2

\* C2: for every identifier the calls of notifyWebhook never outnumber the
\* successful SaveAnalysis calls with Relevant = TRUE, and notifyWebhook is
\* never called with a Result whose Relevant is FALSE.
C2_NotifyAtMostOncePerRelevantSave ==
    /\ \A g \in GUIDs : notifyCalls[g] <= saveRelOK[g]
    /\ \A a \in notifyArgs : a[2] = TRUE

\* One item was notified, and a not-relevant verdict was saved without a call.
C2_Witness ==
    /\ \E g \in GUIDs : notifyCalls[g] = 1
    /\ \E g \in GUIDs : saveOK[g] = 1 /\ saveRelOK[g] = 0 /\ notifyCalls[g] = 0
    /\ CycleDone

\* C3: every item handed to notifyWebhook in a cycle was saved successfully
\* earlier in that cycle; an item whose SaveAnalysis failed is not notified.
C3_SaveGatesNotify ==
    /\ \A k \in 1..Len(cyc.notified) : cyc.notified[k] \in cyc.saved
    /\ \A i \in cyc.saveErr : ~Notified(i)

\* A relevant verdict whose SaveAnalysis failed, the cycle run to its end.
C3_Witness == CycleDone /\ cyc.saveErr \cap cyc.rel # {}

\* C4: at the end of a cycle over a batch with distinct identifiers, every
\* item has gone as far as its own steps allowed, whatever happened to the
\* others: it was checked; if the check found it absent it was classified; if
\* the classification succeeded its save was attempted; if the save succeeded
\* and the verdict is relevant it was notified once.
C4_PartialFailureIsolation ==
    (CycleDone /\ cyc.fetched /\ DistinctGuids) =>
        \A i \in 1..Len(items) :
            /\ i \in cyc.existsErr \cup cyc.present \cup cyc.evald
            /\ (i \in cyc.evald /\ i \notin cyc.evalErr) => i \in cyc.saveTried
            /\ i \in cyc.saveTried => i \in cyc.saveErr \cup cyc.saved
            /\ (i \in cyc.saved /\ i \in cyc.rel) => TimesNotified(i) = 1

\* The first item failed at one of its steps, the second was saved and
\* notified.
C4_Witness ==
    /\ CycleDone /\ Len(items) = 2 /\ DistinctGuids
    /\ 1 \in cyc.existsErr \cup cyc.evalErr \cup cyc.saveErr
    /\ 2 \in cyc.saved /\ Notified(2)

\* C5: SaveAnalysis succeeds at most once per identifier over all cycles of
\* Run, and a stored row is never changed or removed afterwards.
C5_SavedOncePerIdentifier ==
    /\ [](\A g \in GUIDs : saveOK[g] <= 1)
    /\ [][\A r \in rows : r \in rows']_vars

\* One fetch with the same identifier twice: the first saved, the second
\* found present.
C5_Witness ==
    /\ CycleDone /\ Len(items) = 2 /\ items[1].GUID = items[2].GUID
    /\ 1 \in cyc.saved /\ 2 \in cyc.present

\* The latest SaveAnalysis call succeeded on an identifier that had a row.
SecondSave == lastCall.ok /\ lastCall.prev # NoRow

\* What C6 says of every field but updated_at.
ReplacedBySecond(r) ==
    /\ r.relevant = lastCall.res.Relevant
    /\ r.category = lastCall.res.Category
    /\ r.reason = lastCall.res.Reason
    /\ UnmarshalTags(r.tags) = lastCall.res.Tags
    /\ r.title = lastCall.item.Title
    /\ r.link = lastCall.item.Link
    /\ r.published_at = lastCall.item.PublishedAt
    /\ r.created_at = lastCall.prev.created_at

\* C6 as amended: after a second successful SaveAnalysis of an identifier the
\* ledger holds one row for it, with the verdict, title, link and published
\* time of the second call and the created_at of the first; its updated_at is
\* the CURRENT_TIMESTAMP of the second call, which is later than the one before
\* if the clock of the database (whole seconds) has moved on in between and
\* equal to it otherwise.
C6_UpsertReplaces ==
    SecondSave =>
        /\ Cardinality(RowsOf(rows, lastCall.item.GUID)) = 1
        /\ \A r \in RowsOf(rows, lastCall.item.GUID) :
              /\ ReplacedBySecond(r)
              /\ r.updated_at = lastCall.at
              /\ r.updated_at >= lastCall.prev.updated_at
              /\ lastCall.at > lastCall.prev.updated_at
                    => r.updated_at > lastCall.prev.updated_at

\* A second save with another verdict, a second or more after the first.
C6_Witness ==
    /\ SecondSave
    /\ lastCall.res.Relevant # lastCall.prev.relevant
    /\ lastCall.res.Reason # lastCall.prev.reason
    /\ lastCall.at > lastCall.prev.updated_at
    /\ lastCall.at > lastCall.prev.created_at

\* C6 as claimed: as above, with updated_at later than after the first call.
C6_UpdatedAtAdvances ==
    (SecondSave /\ lastCall.res # [Relevant |-> lastCall.prev.relevant,
                                   Category |-> lastCall.prev.category,
                                   Reason   |-> lastCall.prev.reason,
                                   Tags     |-> UnmarshalTags(lastCall.prev.tags)]) =>
        /\ Cardinality(RowsOf(rows, lastCall.item.GUID)) = 1
        /\ \A r \in RowsOf(rows, lastCall.item.GUID) :
              ReplacedBySecond(r) /\ r.updated_at > lastCall.prev.updated_at

\* C7: the ledger never holds two rows with the same identifier, whatever
\* SaveAnalysis statements have run (each statement is atomic, so statements
\* of overlapping cycles are some sequence of them).
C7_OneRowPerIdentifier ==
    \A r1, r2 \in rows : r1.guid = r2.guid => r1 = r2

\* Three statements on two identifiers: one of them was saved twice.
C7_Witness ==
    /\ statements = 3 /\ Cardinality(rows) = 2
    /\ \E g \in GUIDs : saveOK[g] = 2

\* C8: what ListRelevant returned is ordered by published time, latest first,
\* and records with the same published time by insertion, latest first.
C8_ListOrdered ==
    \A i, j \in 1..Len(listed) :
        i < j =>
            \/ listed[i].PublishedAt > listed[j].PublishedAt
            \/ /\ listed[i].PublishedAt = listed[j].PublishedAt
               /\ InsertPos(listed[i].GUID) > InsertPos(listed[j].GUID)

\* Two records with the same published time are listed, and the one inserted
\* first was upserted after the other had been inserted.
C8_Witness ==
    /\ Len(listed) = 2
    /\ listed[1].PublishedAt = listed[2].PublishedAt
    /\ SecondSave /\ lastCall.item.GUID = listed[2].GUID
    /\ lastCall.prev.published_at # lastCall.item.PublishedAt

\* The steps of the only item of the cycle met no failure and no verdict
\* other than relevant.
NothingFailed ==
    /\ cyc.fetched
    /\ cyc.existsErr = {} /\ cyc.evalErr = {} /\ cyc.saveErr = {}
    /\ cyc.evald \subseteq cyc.rel

\* After the cycle: one row for g, relevant, and one call of notifyWebhook,
\* for the item g.
OneRecordOneCall(g) ==
    /\ Cardinality(RowsOf(rows, g)) = 1
    /\ \A r \in RowsOf(rows, g) : r.relevant
    /\ Len(items) = 1 /\ items[1].GUID = g
    /\ cyc.notified = <<1>>

Fenced(s) ==
    LET c == TrimSpace(s)
    IN  HasPrefix(c, Fence) /\ HasSuffix(c, Fence) /\ Contains(c, <<"{">>)

NullCategory(s) == Contains(s, CategoryNull) \/ Contains(s, <<KCategory, "null">>)

\* C10: every answer that is a verdict object wrapped in fences (with or
\* without the language tag, the object on its own lines or on the line of the
\* opening fence) and that carries a null category is parsed without error,
\* with Category = "".
C10_FencedNullCategoryParses ==
    (evalOut.set /\ Fenced(content) /\ NullCategory(content))
        => (~evalOut.err /\ evalOut.out.Category = "")

\* A cycle has ended whose Fetch returned an error.
FetchFailed == CycleDone /\ ~cyc.fetched

\* C11: a cycle whose Fetch failed makes no existence check, no
\* classification, no SaveAnalysis and no notifyWebhook call and leaves the
\* ledger as it was; the failure takes pollOnce back to the loop of Run (Run
\* returns only when cancelled), and at the select a pending tick, with no
\* cancellation, starts the next cycle.
C11_FetchFailureNoSideEffect ==
    /\ [](FetchFailed =>
            /\ cyc.existsErr = {} /\ cyc.present = {} /\ cyc.evald = {}
            /\ cyc.saveTried = {} /\ cyc.notified = <<>>
            /\ rows = cyc.rows0
            /\ (pc = "returned" => cancelled))
    /\ [][(pc = "fetch" /\ pc' # "fetch" /\ ~cyc'.fetched) =>
            /\ pc' \in {"ticker", "select"}
            /\ UNCHANGED <<storeVars, notifyCalls, notifyArgs>>]_vars
    /\ [][(FetchFailed /\ pc = "select" /\ tick /\ ~cancelled /\ pc' # pc) =>
            (pc' = "fetch" /\ cycles' = cycles + 1)]_vars

\* The second cycle failed at Fetch, without cancellation, over a ledger that
\* the first cycle had filled.
C11_Witness == FetchFailed /\ pc = "select" /\ cycles = 2 /\ rows # {} /\ ~cancelled

\* The identifiers for which a notifyWebhook call has failed.
NotifyFailed == {a[1] : a \in {b \in notifyArgs : b[3]}}

\* The step is a notifyWebhook call that fails.
NotifyFailedStep == \E a \in notifyArgs' \ notifyArgs : a[3]

\* C12: a notifyWebhook call that fails changes nothing but the log: the
\* range loop goes on with the next item (or pollOnce returns to the loop of
\* Run after the last one) and the ledger is not touched; the row of the
\* identifier stays as it was saved; the identifier is never again handed to
\* Evaluate, SaveAnalysis or notifyWebhook, in this cycle or a later one.
C12_NotifierFailureInert ==
    /\ [](\A g \in NotifyFailed :
            /\ notifyCalls[g] = 1 /\ saveOK[g] = 1
            /\ Cardinality(RowsOf(rows, g)) = 1
            /\ (pc \in {"evaluate", "save", "notify"} => items[idx].GUID # g))
    /\ [][\A r \in rows : r.guid \in NotifyFailed => r \in rows']_vars
    /\ [][(pc = "notify" /\ NotifyFailedStep) =>
            /\ UNCHANGED storeVars
            /\ IF idx < Len(items)
               THEN pc' = "exists" /\ idx' = idx + 1
               ELSE pc' \in {"ticker", "select"}]_vars

\* The second cycle, not cancelled: the call for its first item failed and the
\* loop went on to the second item, whose own call had failed in the first
\* cycle and which is found in the ledger.
C12_Witness ==
    /\ CycleDone /\ cycles = 2 /\ ~cancelled /\ Len(items) = 2
    /\ items[1].GUID # items[2].GUID
    /\ cyc.notified = <<1>> /\ items[1].GUID \in NotifyFailed
    /\ 2 \in cyc.present /\ items[2].GUID \in NotifyFailed

\* A call of pollOnce is under way.
InCycle == pc \in {"fetch", "exists", "evaluate", "save", "notify"}

\* C13: once Run is under way it has called pollOnce once more than it has
\* received ticks, the first call coming before the ticker exists; a call of
\* pollOnce begins only when none is under way, and apart from the first only
\* by receiving a tick.
C13_Scheduling ==
    /\ [](pc \notin {"main", "fatal"} => cycles = 1 + ticks)
    /\ []((pc \in {"ticker"} \/ (InCycle /\ ~ticker)) => (cycles = 1 /\ ~tick))
    /\ [][cycles' # cycles =>
            /\ ~InCycle /\ pc' = "fetch" /\ cycles' = cycles + 1
            /\ (pc # "main" => (pc = "select" /\ tick /\ ~tick' /\ ticks' = ticks + 1))]_vars
    /\ [][ticks' # ticks => cycles' = cycles + 1]_vars

\* The second call of pollOnce is under way after one tick.
C13_Witness == InCycle /\ cycles = 2 /\ ticks = 1 /\ pc = "evaluate"

\* C14: once ctx is cancelled Run makes no further call of pollOnce, whether
\* or not a tick waits in ticker.C when the loop selects.
C14_NoCycleAfterCancel == [][cancelled => cycles' = cycles]_vars

\* C15: a call of Evaluate or SaveAnalysis that is under way when ctx is
\* cancelled ends as it would have with ctx open: none is cut short by the
\* cancellation.
C15_StepNotAborted == cyc.aborted = {}

\* C16: every 200 answer of itemsHandler holds only records whose Relevant is
\* true (so no row saved with relevant = 0), at most MaxItems of them, and its
\* count is the number of its items (0 for the null the encoder writes for a
\* list without rows).
C16_ItemsContent ==
    response.status = 200 =>
        LET its == response.body.items
        IN  /\ \A i \in 1..Len(its) : its[i].Relevant
            /\ Len(its) <= MaxItems
            /\ response.body.count = Len(its)
            /\ response.body.null = (Len(its) = 0)

\* The answer is full, and it was made when the ledger held a row that is not
\* relevant and that is later published than every relevant one.
C16_Witness ==
    /\ response.status = 200 /\ response.body.count = MaxItems
    /\ response.body.items = listed /\ listed = ListRelevant(rows, MaxItems)
    /\ \E r \in rows :
          ~r.relevant /\ \A q \in rows \ {r} : r.published_at > q.published_at

\* C17: while NewMySQLStore has not returned a store the process is in main
\* or has ended in Fatalf: pollOnce has never been called, no Fetch, Exists,
\* Evaluate, SaveAnalysis or notifyWebhook call has been made and no ticker
\* exists.  Fatalf is reached from main only, and Run returns only after ctx
\* was cancelled: no failure of a step of a cycle ends it.
C17_StartupGate ==
    /\ [](~storeReady =>
            /\ pc \in {"main", "fatal"}
            /\ cycles = 0 /\ ~ticker
            /\ cyc = NewCyc({}) /\ items = <<>>
            /\ saveOK = Zero /\ notifyCalls = Zero /\ rows = {})
    /\ [](pc = "returned" => cancelled)
    /\ [][pc' = "fatal" => (pc \in {"main", "fatal"} /\ ~storeReady')]_vars

\* NewMySQLStore failed and the process has ended.
C17_Witness == pc = "fatal" /\ ~storeReady /\ cycles = 0

\* C18: an item whose Evaluate call failed is not handed to SaveAnalysis, and
\* the step leaves the ledger as it is; every SaveAnalysis call of a cycle
\* follows a successful Evaluate of the same item, and the row it writes
\* carries the verdict of that Evaluate, relevant = 0 for a verdict that is not
\* relevant.
C18_FailureIsNotAVerdict ==
    /\ [](\A i \in cyc.evalErr : i \notin cyc.saveTried /\ i \notin cyc.rel)
    /\ [](cyc.saveTried \subseteq cyc.evald \ cyc.evalErr)
    /\ [](\A i \in cyc.saved :
            \E r \in RowsOf(rows, items[i].GUID) : r.relevant = (i \in cyc.rel))
    /\ [][(pc = "evaluate" /\ cyc'.evalErr # cyc.evalErr) =>
            (UNCHANGED storeVars /\ pc' # "save" /\ result' = ZeroResult)]_vars

\* Of two items the first failed in Evaluate (classifier enabled, ctx open)
\* and has no row; the second was classified as not relevant, with the empty
\* category, reason and tags that a failure returns, and has its row.
C18_Witness ==
    /\ CycleDone /\ activated /\ ~cancelled
    /\ Len(items) = 2 /\ items[1].GUID # items[2].GUID
    /\ 1 \in cyc.evalErr /\ RowsOf(rows, items[1].GUID) = {}
    /\ 2 \in cyc.saved /\ 2 \notin cyc.rel
    /\ \E r \in RowsOf(rows, items[2].GUID) :
          ~r.relevant /\ r.category = ZeroResult.Category /\ r.reason = ZeroResult.Reason

\* The range loop has gone past position i.
Passed(i) == CycleDone \/ (InCycle /\ pc # "fetch" /\ i < idx)

KeptGuids == {pickGUID(e) : e \in {x \in FeedEntries : Kept(x)}}

\* The latest Fetch succeeded and returned g, and no step of the cycle has
\* failed for g.
Good(g) ==
    /\ pc \notin {"main", "fatal", "returned"}
    /\ cyc.fetched
    /\ \E i \in 1..Len(items) : items[i].GUID = g
    /\ \A i \in FailedAt : items[i].GUID # g

C21_NotifyNeverBlocks == (pc = "notify") ~> (pc # "notify")

\* The callers whose statement the database has applied, and the fields a
\* call assigns on INSERT and on UPDATE alike.
Applied == {applied[i] : i \in 1..Len(applied)}

Mutable(r) ==
    [title |-> r.title, link |-> r.link, published_at |-> r.published_at,
     summary |-> r.summary, relevant |-> r.relevant, category |-> r.category,
     reason |-> r.reason, tags |-> r.tags]

Written(c) == Mutable(InsertRow(0, 0, calls[c].item, calls[c].res))

\* The positions in applied of the first and the last statement for guid g.
OfGuid(g) == {i \in 1..Len(applied) : calls[applied[i]].item.GUID = g}

FirstFor(g) == applied[CHOOSE i \in OfGuid(g) : \A j \in OfGuid(g) : i <= j]

LastFor(g) == applied[CHOOSE i \in OfGuid(g) : \A j \in OfGuid(g) : i >= j]

\* C22: however the statements of concurrent SaveAnalysis calls and the
\* queries of readers interleave, an identifier that a call has saved has
\* exactly one row; every mutable field of the row is as the call applied
\* last wrote it, created_at is the second of the call that inserted the row
\* and updated_at that of the last; and every record a reader has listed is,
\* in all its fields, what one single call wrote.
C22_RecordAtomic ==
    /\ \A g \in {calls[c].item.GUID : c \in Applied} :
          /\ Cardinality(RowsOf(rows, g)) = 1
          /\ \A r \in RowsOf(rows, g) :
                /\ Mutable(r) = Written(LastFor(g))
                /\ r.created_at = calls[FirstFor(g)].at
                /\ r.updated_at = calls[LastFor(g)].at
    /\ \A r \in rows : \E c \in Applied : calls[c].item.GUID = r.guid
    /\ \A i \in 1..Len(listed) :
          \E c \in Callers :
              /\ calls[c].pc # "idle"
              /\ listed[i] = StoredItem(InsertRow(0, 0, calls[c].item, calls[c].res))

\* Two calls for one identifier with different items and verdicts were under
\* way at once; the statements were applied in different seconds, a reader
\* listed the record of the first between them, and the row now is the second's.
C22_Witness ==
    /\ Len(applied) = 2
    /\ LET a == applied[1]
           b == applied[2]
       IN  /\ calls[a].item.GUID = calls[b].item.GUID
           /\ calls[a].item # calls[b].item /\ calls[a].res # calls[b].res
           /\ calls[a].at < calls[b].at
           /\ Len(listed) = 1
           /\ listed[1] = StoredItem(InsertRow(0, 0, calls[a].item, calls[a].res))
           /\ \E r \in rows : Mutable(r) = Written(b) /\ r.created_at = calls[a].at

\* The identifier the specification gives an entry: its GUID, else its link,
\* else its title.
Identifier(e) ==
    CASE e.GUID # <<>> -> e.GUID
      [] e.GUID = <<>> /\ e.Link # <<>> -> e.Link
      [] OTHER -> e.Title

\* The entries of the feed whose item Fetch returned, in the order of the feed.
RECURSIVE Sources(_, _)
Sources(fd, its) ==
    IF fd = <<>> \/ its = <<>> THEN <<>>
    ELSE IF Head(its).Title = Head(fd).Title /\ Head(its).Link = Head(fd).Link
            /\ Head(its).GUID = Identifier(Head(fd))
         THEN <<Head(fd)>> \o Sources(Tail(fd), Tail(its))
         ELSE Sources(Tail(fd), its)

\* C23: pickGUID gives every entry of the feed its GUID if that is not empty,
\* else its link if that is not empty, else its title; every item Fetch
\* returns comes from an entry of the feed, in the order of the feed, carries
\* that identifier, and the identifier is not empty: an entry whose GUID, link
\* and title are all empty is never returned.
C23_IdentifierSelection ==
    /\ \A j \in 1..Len(feed) : pickGUID(feed[j]) = Identifier(feed[j])
    /\ pc = "fetched" =>
          /\ Len(Sources(feed, items)) = Len(items)
          /\ \A i \in 1..Len(items) :
                /\ items[i].GUID # <<>>
                /\ ~(items[i].GUID = <<>> /\ items[i].Link = <<>> /\ items[i].Title = <<>>)

\* Fetch was given an entry with nothing in it and an entry with a title only,
\* and returned the second under its title.
C23_Witness ==
    /\ pc = "fetched" /\ Len(feed) = 2 /\ Len(items) = 1
    /\ feed[1] = Entry(<<>>, <<>>, <<>>, 1)
    /\ feed[2].GUID = <<>> /\ feed[2].Link = <<>>
    /\ items[1].GUID = feed[2].Title

\* C24: once ctx is cancelled Run returns at last (its only return is the
\* return nil of the case of ctx.Done()): the cycle under way ends, and the
\* select cannot take the case of the ticker for ever, whatever ticks arrive.
C24_RunReturns == cancelled ~> (pc = "returned")

\* Run has returned after a cancellation, with a tick left in ticker.C, after
\* a cycle begun by a tick whose Fetch failed over a ledger that holds rows.
C24_Witness ==
    /\ pc = "returned" /\ cancelled /\ tick /\ ticks >= 1
    /\ ~cyc.fetched /\ cyc.rows0 = rows /\ rows # {}

=============================================================================
